---- MODULE Spec2Model ----
(***************************************************************************)
(* Model of the threat-intelligence pipeline of src/threat_intel.py:       *)
(* module import, main()'s loop over FEEDS, poll_feed()'s loop over the    *)
(* entries of one feed, the groupby/merge of duplicate records, the pivot  *)
(* of the list columns into country_i / ttp_desc_i cells and the report.   *)
(*                                                                         *)
(* Strings are sequences of characters over a small alphabet that has an   *)
(* upper and a lower case letter, a precomposed accented letter, the       *)
(* combining accent itself and the space, so that the Text Normalizer      *)
(* (NFKD, drop combining marks, lower, strip) is computed, not assumed.    *)
(***************************************************************************)
EXTENDS Integers, Sequences, FiniteSets, TLC

(***************************************************************************)
(* Bounds of the model.                                                    *)
(***************************************************************************)
MaxFeeds == 2
MaxEntries == 2
MaxRecords == 3
MaxWords == 3
MaxLen == 3
MaxCalls == 2

(***************************************************************************)
(* Characters and strings.                                                 *)
(***************************************************************************)
None == "None"
EmptyStr == << >>

Chars == {" ", "B", "E", "F", "M", "P", "R", "S", "U", "a", "b", "e", "f", "h",
          "m", "o", "p", "r", "s", "u", "Eacute", "eacute", "acute"}

\* Unicode code point of each character of the alphabet (sorted() compares
\* strings code point by code point).  Eacute is U+00C9, eacute U+00E9 and
\* acute the combining acute accent U+0301.
CodePoint(ch) ==
  CASE ch = " " -> 32
    [] ch = "B" -> 66
    [] ch = "E" -> 69
    [] ch = "F" -> 70
    [] ch = "M" -> 77
    [] ch = "P" -> 80
    [] ch = "R" -> 82
    [] ch = "S" -> 83
    [] ch = "U" -> 85
    [] ch = "a" -> 97
    [] ch = "b" -> 98
    [] ch = "e" -> 101
    [] ch = "f" -> 102
    [] ch = "h" -> 104
    [] ch = "m" -> 109
    [] ch = "o" -> 111
    [] ch = "p" -> 112
    [] ch = "r" -> 114
    [] ch = "s" -> 115
    [] ch = "u" -> 117
    [] ch = "Eacute" -> 201
    [] ch = "eacute" -> 233
    [] ch = "acute" -> 769

\* unicodedata.normalize("NFKD", ch): the precomposed letters decompose into
\* base letter + combining acute, every other character is unchanged.
NFKD(ch) ==
  CASE ch = "Eacute" -> <<"E", "acute">>
    [] ch = "eacute" -> <<"e", "acute">>
    [] OTHER -> <<ch>>

\* unicodedata.combining(ch) # 0
Combining(ch) == ch = "acute"

\* str.lower() on one character
Lower(ch) ==
  CASE ch = "E" -> "e"
    [] ch = "B" -> "b"
    [] ch = "U" -> "u"
    [] ch = "F" -> "f"
    [] ch = "M" -> "m"
    [] ch = "P" -> "p"
    [] ch = "R" -> "r"
    [] ch = "S" -> "s"
    [] ch = "Eacute" -> "eacute"
    [] OTHER -> ch

IsSpace(ch) == ch = " "

RECURSIVE FlatMap(_, _)
FlatMap(F(_), s) ==
  IF s = << >> THEN << >> ELSE F(Head(s)) \o FlatMap(F, Tail(s))

RECURSIVE LStrip(_)
LStrip(s) ==
  IF s = << >> THEN << >>
  ELSE IF IsSpace(Head(s)) THEN LStrip(Tail(s)) ELSE s

RECURSIVE RStrip(_)
RStrip(s) ==
  IF s = << >> THEN << >>
  ELSE IF IsSpace(s[Len(s)]) THEN RStrip(SubSeq(s, 1, Len(s) - 1)) ELSE s

\* str.strip()
Strip(s) == RStrip(LStrip(s))

\* the normalizer with strip() applied to the raw string instead of last
NormalizeStripFirst(s) ==
  LET decomposed == FlatMap(NFKD, Strip(s))
      unmarked == SelectSeq(decomposed, LAMBDA ch : ~Combining(ch))
  IN  [i \in 1..Len(unmarked) |-> Lower(unmarked[i])]

\* _normalize_text_for_match(s)
normalize_text_for_match(s) ==
  LET decomposed == FlatMap(NFKD, s)
      unmarked == SelectSeq(decomposed, LAMBDA ch : ~Combining(ch))
      lowered == [i \in 1..Len(unmarked) |-> Lower(unmarked[i])]
  IN  Strip(lowered)

\* s < t in Python's string order (code point by code point, prefix first)
RECURSIVE StrLess(_, _)
StrLess(s, t) ==
  IF t = << >> THEN FALSE
  ELSE IF s = << >> THEN TRUE
  ELSE IF CodePoint(Head(s)) # CodePoint(Head(t))
       THEN CodePoint(Head(s)) < CodePoint(Head(t))
       ELSE StrLess(Tail(s), Tail(t))

\* sorted(set_of_strings)
RECURSIVE SortedStrings(_)
SortedStrings(S) ==
  IF S = {} THEN << >>
  ELSE LET m == CHOOSE x \in S : \A y \in S \ {x} : StrLess(x, y)
       IN  <<m>> \o SortedStrings(S \ {m})

Range(s) == {s[i] : i \in 1..Len(s)}

RECURSIVE Flatten(_)
Flatten(ss) == IF ss = << >> THEN << >> ELSE Head(ss) \o Flatten(Tail(ss))

Max(S) == IF S = {} THEN 0 ELSE CHOOSE x \in S : \A y \in S : y <= x

(***************************************************************************)
(* merge_listlike and pad_lists.                                           *)
(***************************************************************************)

\* merge_listlike with the seen set keyed by the text itself
RECURSIVE DedupExact(_, _)
DedupExact(out, seen) ==
  IF out = << >> THEN << >>
  ELSE LET s == Strip(Head(out))
       IN  IF s = << >> \/ s \in seen
           THEN DedupExact(Tail(out), seen)
           ELSE <<s>> \o DedupExact(Tail(out), seen \cup {s})

\* Second loop of merge_listlike: strip every item, drop the empty ones and
\* the ones whose normalized form was already seen, keep the stripped text
\* of the first occurrence.
RECURSIVE DedupNormalized(_, _)
DedupNormalized(out, seen) ==
  IF out = << >> THEN << >>
  ELSE LET s == Strip(Head(out))
           key == normalize_text_for_match(s)
       IN  IF s = << >> \/ key \in seen
           THEN DedupNormalized(Tail(out), seen)
           ELSE <<s>> \o DedupNormalized(Tail(out), seen \cup {key})

\* merge_listlike(series): the series holds one list per record of the group
merge_listlike(series) == DedupNormalized(Flatten(series), {})

\* padding on the left
PadLeft(l, n) == [i \in 1..(n - Len(l)) |-> EmptyStr] \o l

\* pad_lists(list_of_lists): right-pad every list with "" to the longest
PadTo(l, n) == l \o [i \in 1..(n - Len(l)) |-> EmptyStr]

pad_lists(list_of_lists) ==
  LET max_len == Max({Len(list_of_lists[i]) : i \in 1..Len(list_of_lists)})
  IN  [padded |-> [i \in 1..Len(list_of_lists) |-> PadTo(list_of_lists[i], max_len)],
       max_len |-> max_len]

(***************************************************************************)
(* Taxonomy values: canonical country names, technique descriptions and    *)
(* actor labels, as the tables of the module spell them.                   *)
(***************************************************************************)
Sweden == <<"S", "e">>
France == <<"F", "r">>
Russia == <<"R", "u">>
RussianFederation == <<"R", "f">>
UnitedStates == <<"U", "s">>
Bolivia == <<"B", "o">>
BoliviaPlurinational == <<"B", "o", "p">>

Phishing == <<"P", "h">>
Spearphishing == <<"S", "p", "h">>
Malware == <<"M", "a">>

\* Countries are identified by their alpha-2 code.  pycountry's c.name is
\* the canonical name of the name-table scan and of the TLD rule, the alias
\* tables carry their own English names.
CountryIds == {"SE", "FR", "RU", "US", "BO"}
PycName(c) ==
  CASE c = "SE" -> Sweden
    [] c = "FR" -> France
    [] c = "RU" -> RussianFederation
    [] c = "US" -> UnitedStates
    [] c = "BO" -> BoliviaPlurinational
AliasName(c) ==
  CASE c = "SE" -> Sweden
    [] c = "FR" -> France
    [] c = "RU" -> Russia
    [] c = "US" -> UnitedStates
    [] c = "BO" -> Bolivia
\* iteration order of _NAME_TO_ALPHA, _NATIVE_ALIAS_TO_EN and _ALIASES
NameTableOrder == <<"BO", "FR", "RU", "SE", "US">>
NativeTableOrder == <<"SE", "FR", "BO", "RU">>
AliasTableOrder == <<"US", "RU", "BO">>

\* the keys of the three tables that name each country, in lower case as the
\* tables hold them ("rossiya" stands for the Cyrillic key of line 142)
NameKeys(c) ==
  CASE c = "SE" -> {"sweden"}
    [] c = "FR" -> {"france"}
    [] c = "RU" -> {"russian federation"}
    [] c = "US" -> {"united states"}
    [] c = "BO" -> {"bolivia"}
NativeKeys(c) ==
  CASE c = "SE" -> {"sverige"}
    [] c = "FR" -> {"france"}
    [] c = "RU" -> {"rossiya"}
    [] c = "BO" -> {"bolivia"}
    [] OTHER -> {}
AliasKeys(c) ==
  CASE c = "US" -> {"usa"}
    [] c = "RU" -> {"russia", "russian federation"}
    [] c = "BO" -> {"bolivia"}
    [] OTHER -> {}

\* A text, for the keyword matchers, is the sequence of its words; a
\* pattern r"\bword\b" is the word it looks for.
\* ACTOR_PATTERNS in declaration order (four of its entries, with the
\* patterns as the table spells them)
ACTOR_PATTERNS ==
  <<[actor |-> "APT28 (Fancy Bear / Sofacy)", patterns |-> <<"apt28", "sofacy">>],
    [actor |-> "APT3 (Buckeye)", patterns |-> <<"apt3", "uckeye">>],
    [actor |-> "APT17", patterns |-> <<"apt17", "Aurora">>],
    [actor |-> "Lazarus Group", patterns |-> <<"lazarus">>]>>

\* MAPPINGS in declaration order (three of its entries): a pattern is the
\* set of words of its alternatives, r"\bmalware\b|\btrojan\b|..."
MAPPINGS ==
  <<[pattern |-> {"phishing"}, desc |-> <<Phishing>>],
    [pattern |-> {"spearphishing"}, desc |-> <<Spearphishing>>],
    [pattern |-> {"malware", "trojan"}, desc |-> <<Malware>>]>>

\* the words of the texts about techniques
TtpWords == {"phishing", "Phishing", "spearphishing", "malware", "Trojan", "report"}

\* the words of the texts about actors
ActorWords ==
  {"APT28", "Sofacy", "sofacy", "Buckeye", "apt17", "Aurora", "Lazarus",
   "lazarus", "breach"}

\* str.lower() on a word
LowerWord(w) ==
  CASE w = "APT28" -> "apt28"
    [] w = "Phishing" -> "phishing"
    [] w = "Sweden" -> "sweden"
    [] w = "USA" -> "usa"
    [] w = "Russia" -> "russia"
    [] w = "Russian Federation" -> "russian federation"
    [] w = "Sverige" -> "sverige"
    [] w = "France" -> "france"
    [] w = "Bolivia" -> "bolivia"
    [] w = "Trojan" -> "trojan"
    [] w = "Sofacy" -> "sofacy"
    [] w = "Buckeye" -> "buckeye"
    [] w = "Aurora" -> "aurora"
    [] w = "Lazarus" -> "lazarus"
    [] OTHER -> w
LowerText(text) == [k \in 1..Len(text) |-> LowerWord(text[k])]

\* re.search(p, text) for a one-word pattern, without re.I
Fires(p, text) == \E k \in 1..Len(text) : text[k] = p

\* re.search(pattern, text, re.I) for a pattern of alternative words
FiresIgnoreCase(pattern, text) ==
  \E k \in 1..Len(text) : \E w \in pattern : LowerWord(text[k]) = LowerWord(w)

U1 == "http://x.test/a"
U2 == "http://y.se/b"
U3 == "http://z.ru/c"
Urls == {U1, U2}
Titles == {"Attack", "Breach"}
\* Python's order on the url and title strings of the model
UrlOrder == <<U1, U2>>
TitleOrder == <<"Attack", "Breach">>

\* tldextract: registrable domain and public suffix of the model's urls
normalize_domain(url) ==
  CASE url = U1 -> "x.test"
    [] url = U2 -> "y.se"
    [] url = U3 -> "z.ru"
    [] OTHER -> ""
TldSuffix(url) ==
  CASE url = U1 -> "test" [] url = U2 -> "se" [] url = U3 -> "ru" [] OTHER -> ""
Alpha2OfSuffix(suffix) ==
  CASE suffix = "se" -> "SE" [] suffix = "ru" -> "RU" [] OTHER -> None

(***************************************************************************)
(* Time.  Timestamps are whole days; main() looks back RetentionDays.      *)
(***************************************************************************)
Now == 10
RetentionDays == 7
Since == Now - RetentionDays

\* A date field of a feed entry: absent, text that is no date, or a date.
NoDate == [kind |-> "absent", day |-> 0]
Garbage == [kind |-> "garbage", day |-> 0]
Day(d) == [kind |-> "date", day |-> d]

\* parse_when(entry_date): None (here NoDate) for a missing or unparseable date
parse_when(entry_date) ==
  IF entry_date.kind = "date" THEN entry_date ELSE NoDate

\* e.get("published") or e.get("updated")
EntryDate(e) == IF e.published # NoDate THEN e.published ELSE e.updated

(***************************************************************************)
(* What the matchers find in a piece of text: the technique and actor      *)
(* words of the text, the countries the NER maps (in order of              *)
(* appearance), the countries whose name / native alias / common alias     *)
(* occurs, what GeoIP answers for each IPv4 literal, and the words of the  *)
(* text that name actors.                                                  *)
(***************************************************************************)
Hits(ttp, ner, names, native, alias, ips, actors) ==
  [ttp |-> ttp, ner |-> ner, names |-> names, native |-> native,
   alias |-> alias, ips |-> ips, actors |-> actors]
NoHits == Hits(<< >>, << >>, {}, {}, {}, << >>, << >>)

\* the matchers over "\n".join([title, summary, full_text])
Blob(head, body) ==
  Hits(head.ttp \o body.ttp, head.ner \o body.ner, head.names \cup body.names,
       head.native \cup body.native, head.alias \cup body.alias,
       head.ips \o body.ips, head.actors \o body.actors)

\* The step of poll_feed's loop body that fails for an entry, if any.
CaughtFaults == {"body_http", "body_timeout", "ner", "tld"}
UncaughtFaults == {"summary_html", "body_html", "classify", "country_scan", "actor"}
Faults == {"none"} \cup CaughtFaults \cup UncaughtFaults

\* fetch_article_text(url): the matchers' view of the text it returns; ""
\* when requests.get raises (HTTP error, timeout)
fetch_article_text(e) ==
  IF e.fault \in {"body_http", "body_timeout"} THEN NoHits ELSE e.body

\* the loop of classify with "matched_desc = set(...)" for "update"
RECURSIVE MatchedDescLastWins(_, _, _)
MatchedDescLastWins(mappings, text, matched_desc) ==
  IF mappings = << >> THEN matched_desc
  ELSE MatchedDescLastWins(Tail(mappings), text,
                           IF FiresIgnoreCase(Head(mappings).pattern, text)
                           THEN Range(Head(mappings).desc)
                           ELSE matched_desc)

\* the loop of classify over the (pattern, info) items of the taxonomy
RECURSIVE MatchedDesc(_, _, _)
MatchedDesc(mappings, text, matched_desc) ==
  IF mappings = << >> THEN matched_desc
  ELSE MatchedDesc(Tail(mappings), text,
                   IF FiresIgnoreCase(Head(mappings).pattern, text)
                   THEN matched_desc \cup Range(Head(mappings).desc)
                   ELSE matched_desc)

\* classify(text) with the taxonomy it reads as a parameter
ClassifyWith(mappings, text) == SortedStrings(MatchedDesc(mappings, text, {}))

\* classify(text)
classify(text) == ClassifyWith(MAPPINGS, text)

\* the loops of detect_actor over the table and over an actor's patterns
RECURSIVE FirstActor(_, _)
FirstActor(table, lowered) ==
  IF table = << >> THEN ""
  ELSE IF \E j \in 1..Len(Head(table).patterns) :
            Fires(Head(table).patterns[j], lowered)
       THEN Head(table).actor
       ELSE FirstActor(Tail(table), lowered)

\* detect_actor(text)
detect_actor(text) == FirstActor(ACTOR_PATTERNS, LowerText(text))

\* append every candidate that is not yet in results (exact comparison)
RECURSIVE AppendNew(_, _)
AppendNew(results, cands) ==
  IF cands = << >> THEN results
  ELSE IF Head(cands) \in Range(results) THEN AppendNew(results, Tail(cands))
  ELSE AppendNew(Append(results, Head(cands)), Tail(cands))

\* the table scans: one candidate per table row whose name occurs
TableHits(order, found, Name(_)) ==
  LET rows == SelectSeq(order, LAMBDA c : c \in found)
  IN  [i \in 1..Len(rows) |-> Name(rows[i])]

\* detect_countries with the common-alias table scanned before the
\* native-alias table
DetectCountriesAliasFirst(blob, url, fault, SPACY_OK, PYCOUNTRY_OK) ==
  LET r1 == IF SPACY_OK /\ fault # "ner" THEN AppendNew(<< >>, blob.ner) ELSE << >>
      r2 == IF PYCOUNTRY_OK
            THEN AppendNew(r1, TableHits(NameTableOrder, blob.names, PycName))
            ELSE r1
      r3 == AppendNew(r2, TableHits(AliasTableOrder, blob.alias, AliasName))
      r4 == AppendNew(r3, TableHits(NativeTableOrder, blob.native, AliasName))
      cc == Alpha2OfSuffix(TldSuffix(url))
  IN  IF url # None /\ fault # "tld" /\ PYCOUNTRY_OK /\ cc # None
      THEN AppendNew(r4, <<PycName(cc)>>)
      ELSE r4

\* detect_countries(text, url)
detect_countries(blob, url, fault, SPACY_OK, PYCOUNTRY_OK) ==
  LET r1 == IF SPACY_OK /\ fault # "ner" THEN AppendNew(<< >>, blob.ner) ELSE << >>
      r2 == IF PYCOUNTRY_OK
            THEN AppendNew(r1, TableHits(NameTableOrder, blob.names, PycName))
            ELSE r1
      r3 == AppendNew(r2, TableHits(NativeTableOrder, blob.native, AliasName))
      r4 == AppendNew(r3, TableHits(AliasTableOrder, blob.alias, AliasName))
      cc == Alpha2OfSuffix(TldSuffix(url))
  IN  IF url # None /\ fault # "tld" /\ PYCOUNTRY_OK /\ cc # None
      THEN AppendNew(r4, <<PycName(cc)>>)
      ELSE r4

\* the words of the texts about countries
CountryWords ==
  {"attacks", "Sweden", "USA", "Russia", "Russian Federation", "Sverige",
   "Bolivia"}
PlaceWords == CountryWords \ {"attacks"}

\* the table scans over text_lower (lines 502-503, 511-512, 515-516): the
\* countries one of whose keys occurs as a word
NamesFound(text) == {c \in CountryIds : FiresIgnoreCase(NameKeys(c), text)}
NativeFound(text) == {c \in CountryIds : FiresIgnoreCase(NativeKeys(c), text)}
AliasFound(text) == {c \in CountryIds : FiresIgnoreCase(AliasKeys(c), text)}

\* map_to_country(candidate): common alias, native alias, then the name
\* table of pycountry; "" stands for None
map_to_country(candidate, pyc_ok) ==
  LET cand_norm == LowerWord(candidate)
  IN  IF \E c \in CountryIds : cand_norm \in AliasKeys(c)
      THEN AliasName(CHOOSE c \in CountryIds : cand_norm \in AliasKeys(c))
      ELSE IF \E c \in CountryIds : cand_norm \in NativeKeys(c)
      THEN AliasName(CHOOSE c \in CountryIds : cand_norm \in NativeKeys(c))
      ELSE IF pyc_ok /\ \E c \in CountryIds : cand_norm \in NameKeys(c)
      THEN PycName(CHOOSE c \in CountryIds : cand_norm \in NameKeys(c))
      ELSE EmptyStr

\* lines 491-497: the GPE/LOC entities the model reports (the words of
\* `recognized`), mapped, in order of appearance
NerHits(text, recognized, pyc_ok) ==
  LET ents == SelectSeq(text, LAMBDA w : w \in recognized)
      mapped == [i \in 1..Len(ents) |-> map_to_country(ents[i], pyc_ok)]
  IN  SelectSeq(mapped, LAMBDA n : n # EmptyStr)

\* what the matchers of detect_countries find in a text
TextHits(text, recognized, pyc_ok) ==
  Hits(<< >>, NerHits(text, recognized, pyc_ok), NamesFound(text),
       NativeFound(text), AliasFound(text), << >>, << >>)

\* detect_countries(text, url) on a text given by its words; "if not text"
DetectCountriesOfText(text, url, recognized, fault, spacy_ok, pyc_ok) ==
  IF text = << >> THEN << >>
  ELSE detect_countries(TextHits(text, recognized, pyc_ok), url, fault,
                        spacy_ok, pyc_ok)

(***************************************************************************)
(* poll_feed: one feed entry, and the loop over the entries of a feed.     *)
(***************************************************************************)
Entry(link, title, published, updated, fault, head, body) ==
  [link |-> link, title |-> title, published |-> published, updated |-> updated,
   fault |-> fault, head |-> head, body |-> body]

\* lines 602-610: every GeoIP answer is appended unless it is empty (None,
\* or the literal is no valid address) or already present
GeoMerge(countries, ips) ==
  AppendNew(countries, SelectSeq(ips, LAMBDA g : g # EmptyStr))

\* the comparison with since made inclusive
SkippedInclusive(e, since) ==
  LET published == parse_when(EntryDate(e))
  IN  published = NoDate \/ published.day <= since

\* the entry's date is missing, unparseable or older than since
Skipped(e, since) ==
  LET published == parse_when(EntryDate(e))
  IN  published = NoDate \/ published.day < since

\* an exception leaves the loop body: no try block encloses these steps
Raises(e) ==
  \/ e.fault \in {"summary_html", "classify", "country_scan", "actor"}
  \/ e.fault = "body_html" /\ e.link # None

\* the dictionary appended to items (lines 613-621)
ItemOf(e, SPACY_OK, PYCOUNTRY_OK) ==
  LET full_text == IF e.link # None THEN fetch_article_text(e) ELSE NoHits
      blob == Blob(e.head, full_text)
      countries == detect_countries(blob, e.link, e.fault, SPACY_OK, PYCOUNTRY_OK)
  IN  [published_utc |-> parse_when(EntryDate(e)).day,
       source |-> normalize_domain(e.link),
       title |-> e.title,
       url |-> e.link,
       ttp_desc |-> classify(blob.ttp),
       threat_actor |-> detect_actor(blob.actors),
       affected_countries |-> GeoMerge(countries, blob.ips)]

\* one iteration of "for e in parsed.entries"
EntryOutcome(e, since, SPACY_OK, PYCOUNTRY_OK) ==
  IF Skipped(e, since) THEN [kind |-> "skip"]
  ELSE IF Raises(e) THEN [kind |-> "raise"]
  ELSE [kind |-> "item", item |-> ItemOf(e, SPACY_OK, PYCOUNTRY_OK)]

\* poll_feed(url, since, GEOIP) on a feed that parsed to `entries`:
\* [raised |-> TRUE] or [raised |-> FALSE, items |-> ...]
RECURSIVE PollEntries(_, _, _, _, _)
PollEntries(entries, items, since, SPACY_OK, PYCOUNTRY_OK) ==
  IF entries = << >> THEN [raised |-> FALSE, items |-> items]
  ELSE LET o == EntryOutcome(Head(entries), since, SPACY_OK, PYCOUNTRY_OK)
       IN  CASE o.kind = "skip" ->
                  PollEntries(Tail(entries), items, since, SPACY_OK, PYCOUNTRY_OK)
             [] o.kind = "raise" -> [raised |-> TRUE]
             [] o.kind = "item" ->
                  PollEntries(Tail(entries), Append(items, o.item), since,
                              SPACY_OK, PYCOUNTRY_OK)

poll_feed(entries, since, SPACY_OK, PYCOUNTRY_OK) ==
  PollEntries(entries, << >>, since, SPACY_OK, PYCOUNTRY_OK)

(***************************************************************************)
(* main: accumulation over the feeds, groupby/merge, pivot, split.         *)
(***************************************************************************)

\* an item whose url was seen before replaces the record kept for that url
RECURSIVE AccumulateLast(_, _)
AccumulateLast(acc, items) ==
  IF items = << >> THEN acc
  ELSE LET itm == Head(items)
       IN  IF itm.url \in acc.seen_urls
           THEN AccumulateLast(
                  [all_items |-> [i \in 1..Len(acc.all_items) |->
                                    IF acc.all_items[i].url = itm.url
                                    THEN itm ELSE acc.all_items[i]],
                   seen_urls |-> acc.seen_urls],
                  Tail(items))
           ELSE AccumulateLast([all_items |-> Append(acc.all_items, itm),
                                seen_urls |-> acc.seen_urls \cup {itm.url}],
                               Tail(items))

\* lines 634-637: keep the items whose url was not seen before
RECURSIVE Accumulate(_, _)
Accumulate(acc, items) ==
  IF items = << >> THEN acc
  ELSE LET itm == Head(items)
       IN  IF itm.url \in acc.seen_urls
           THEN Accumulate(acc, Tail(items))
           ELSE Accumulate([all_items |-> Append(acc.all_items, itm),
                            seen_urls |-> acc.seen_urls \cup {itm.url}],
                           Tail(items))

Rank(order, x) == CHOOSE i \in 1..Len(order) : order[i] = x
KeyLess(k1, k2) ==
  \/ Rank(UrlOrder, k1[1]) < Rank(UrlOrder, k2[1])
  \/ k1[1] = k2[1] /\ Rank(TitleOrder, k1[2]) < Rank(TitleOrder, k2[2])

RECURSIVE SortedKeys(_)
SortedKeys(K) ==
  IF K = {} THEN << >>
  ELSE LET m == CHOOSE k \in K : \A j \in K \ {k} : KeyLess(k, j)
       IN  <<m>> \o SortedKeys(K \ {m})

\* groupby(['url', 'title']): the groups in key order; a row whose url is
\* None belongs to no group (dropna)
GroupKeys(records) ==
  {<<records[i].url, records[i].title>> :
     i \in {j \in 1..Len(records) : records[j].url # None}}
Group(records, k) ==
  SelectSeq(records, LAMBDA r : r.url = k[1] /\ r.title = k[2])

\* .agg({...}) on one group
AggRow(group) ==
  [url |-> group[1].url,
   title |-> group[1].title,
   published_utc |-> group[1].published_utc,
   source |-> group[1].source,
   ttp_desc |-> merge_listlike([i \in 1..Len(group) |-> group[i].ttp_desc]),
   threat_actor |-> group[1].threat_actor,
   affected_countries |->
     merge_listlike([i \in 1..Len(group) |-> group[i].affected_countries])]

\* lines 652-658
GroupByMerge(records) ==
  LET keys == SortedKeys(GroupKeys(records))
  IN  [i \in 1..Len(keys) |-> AggRow(Group(records, keys[i]))]

\* the pivot without the branch for max_len = 0
PivotNoFallback(lists) ==
  LET p == pad_lists(lists)
  IN  [cells |-> p.padded, n |-> p.max_len]

\* lines 661-665 and 669-673: the cells of one list column and their number
Pivot(lists) ==
  LET p == pad_lists(lists)
  IN  IF p.max_len = 0
      THEN [cells |-> [i \in 1..Len(lists) |-> <<EmptyStr>>], n |-> 1]
      ELSE [cells |-> p.padded, n |-> p.max_len]

\* "Phishing" in str(x): s occurs in x
IsSubstring(s, x) ==
  \E i \in 1..(Len(x) - Len(s) + 1) : SubSeq(x, i, i + Len(s) - 1) = s

\* the mask with the test for "Phishing" alone
HumanMaskPhishingOnly(row) ==
  \E i \in 1..Len(row.ttp_desc) : IsSubstring(Phishing, row.ttp_desc[i])

\* lines 677-680
human_mask(row) ==
  \E i \in 1..Len(row.ttp_desc) :
    IsSubstring(Phishing, row.ttp_desc[i]) \/ IsSubstring(Spearphishing, row.ttp_desc[i])

\* Column names: a scalar column is <<name, 0>>, the i-th column of a
\* pivoted list is <<prefix, i>> (f"country_{i+1}", f"ttp_desc_{i+1}").
Col(name) == <<name, 0>>
Numbered(prefix, n) == {<<prefix, i>> : i \in 1..n}

\* the keys of the dictionary poll_feed appends (lines 613-621); the groupby
\* keeps them all (keys url and title, the five aggregated columns)
ItemColumns ==
  {Col("published_utc"), Col("source"), Col("title"), Col("url"),
   Col("ttp_desc"), Col("threat_actor"), Col("affected_countries")}

\* the list column left in the frame
KeepColumn(cols, name) == cols

\* df.drop(columns=[name])
DropColumn(cols, name) == cols \ {Col(name)}

\* lines 666 and 674: each list column is dropped and its cells are appended
WideColumns(N, M) ==
  LET with_countries ==
        DropColumn(ItemColumns, "affected_countries") \cup Numbered("country_", N)
  IN  DropColumn(with_countries, "ttp_desc") \cup Numbered("ttp_desc_", M)

SheetNames == {"Human_Attacks", "General_Attacks"}

\* lines 645-688: the wide table and its two sheets
WideTable(records) ==
  LET df == GroupByMerge(records)
      c == Pivot([i \in 1..Len(df) |-> df[i].affected_countries])
      t == Pivot([i \in 1..Len(df) |-> df[i].ttp_desc])
      wide == [i \in 1..Len(df) |->
                 [url |-> df[i].url, title |-> df[i].title,
                  published_utc |-> df[i].published_utc, source |-> df[i].source,
                  threat_actor |-> df[i].threat_actor,
                  country |-> c.cells[i], ttp_desc |-> t.cells[i]]]
  IN  [merged |-> df, rows |-> wide, N |-> c.n, M |-> t.n,
       sheet_columns |-> [sh \in SheetNames |-> WideColumns(c.n, t.n)],
       Human_Attacks |-> SelectSeq(wide, human_mask),
       General_Attacks |-> SelectSeq(wide, LAMBDA r : ~human_mask(r))]

(***************************************************************************)
(* The feed entries the environment can serve.                             *)
(***************************************************************************)
\* a GeoIP database name spelled with another case and an accent
SwedenGeo == <<"s", "eacute">>

E1 == Entry(U1, "Attack", Day(Since + 1), NoDate, "none",
            Hits(<<"phishing">>, << >>, {}, {"SE"}, {}, << >>, << >>), NoHits)
E2 == Entry(U1, "Attack", NoDate, Day(Since + 2), "none",
            Hits(<< >>, << >>, {"FR"}, {}, {}, <<SwedenGeo>>, << >>), NoHits)
E3 == Entry(U1, "Breach", Day(Since), NoDate, "none", NoHits,
            Hits(<<"Trojan", "Phishing">>, << >>, {"RU"}, {}, {"RU"}, << >>,
                 <<"Lazarus", "APT28">>))
E4 == Entry(None, "Attack", Day(Since + 1), NoDate, "none",
            Hits(<<"malware">>, << >>, {}, {}, {}, <<EmptyStr, Sweden>>, << >>), NoHits)
E5 == Entry(U2, "Attack", Day(Since - 1), NoDate, "none",
            Hits(<<"phishing">>, << >>, {}, {"FR"}, {}, << >>, << >>), NoHits)
E6 == Entry(U2, "Attack", Garbage, Day(Since + 1), "none",
            Hits(<<"phishing">>, << >>, {}, {"FR"}, {}, << >>, << >>), NoHits)
E7 == Entry(U2, "Breach", Day(Since + 1), NoDate, "body_html",
            Hits(<<"malware">>, << >>, {}, {"FR"}, {}, << >>, << >>), NoHits)
E8 == Entry(U2, "Breach", Day(Since + 1), NoDate, "body_timeout",
            Hits(<< >>, <<France>>, {}, {}, {}, << >>, << >>),
            Hits(<<"phishing">>, << >>, {}, {}, {}, <<Sweden>>, <<"Lazarus">>))
E9 == Entry(U2, "Breach", Day(Since + 2), NoDate, "none",
            Hits(<< >>, <<France>>, {}, {}, {}, << >>, << >>),
            Hits(<<"phishing">>, << >>, {}, {}, {}, <<Sweden>>, <<"Lazarus">>))

E10 == Entry(U2, "Attack", Day(Since + 1), NoDate, "none",
             Hits(<<"spearphishing">>, << >>, {}, {}, {}, << >>, << >>), NoHits)

\* the text names Sweden and holds an address the GeoIP database places in
\* Sweden under its own spelling
E11 == Entry(U1, "Breach", Day(Since + 1), NoDate, "none",
             Hits(<<"malware">>, << >>, {}, {"SE"}, {}, <<SwedenGeo>>, << >>), NoHits)

EntryPool == {E1, E2, E3, E4, E5, E6, E7, E8, E9, E10, E11}

\* the entries the feeds of a whole run are drawn from
MainPool == {E1, E2, E3, E4, E5, E7, E9}

WithFault(e, f) == [e EXCEPT !.fault = f]
WithDates(e, p, u) == [e EXCEPT !.published = p, !.updated = u]

PollPool ==
  EntryPool \cup {WithFault(E9, f) : f \in Faults}
           \cup {WithFault(E4, "body_html"),
                 WithDates(E1, NoDate, NoDate),
                 WithDates(E1, Day(Since - 1), Day(Since + 1))}

SeqsUpTo(S, n) == UNION {[1..k -> S] : k \in 0..n}

(***************************************************************************)
(* State.                                                                  *)
(***************************************************************************)
VARIABLES
  env,        \* what is installed: geoip2, the .mmdb file, spaCy model, pycountry
  mainPc,     \* where the run is
  nFeeds,     \* len(FEEDS)
  fi,         \* index of the next feed of "for feed in FEEDS"
  all_items,  \* main's all_items
  seen_urls,  \* main's seen_urls
  lastPoll,   \* how the last call of poll_feed ended
  warned,     \* number of "[warn] feed failed" lines printed
  polled,     \* history: the records poll_feed has returned to main
  report,     \* the workbook written: the wide table and its two sheets
  ret,        \* what main returned to its caller
  entries,    \* poll_feed: parsed.entries
  ei,         \* poll_feed: index of the next entry
  items,      \* poll_feed: items
  pollPc,     \* poll_feed: where the call is
  first_seen, \* history: per url, the first record poll_feed returned to main
  call,       \* a helper called on its own: its arguments
  returned    \* a helper called on its own: the values it returned so far

vars == <<env, mainPc, nFeeds, fi, all_items, seen_urls, lastPoll, warned,
          polled, report, ret, entries, ei, items, pollPc, first_seen, call,
          returned>>

mainVars == <<env, mainPc, nFeeds, fi, all_items, seen_urls, lastPoll, warned,
              polled, report, ret>>
pollVars == <<entries, ei, items, pollPc>>
fnVars == <<call, returned>>
NoCall == << >>

Envs == [geoip2 : BOOLEAN, mmdb : BOOLEAN, spacy : BOOLEAN, pycountry : BOOLEAN]

SPACY_OK == env.spacy
PYCOUNTRY_OK == env.pycountry

NoReport == "no file"
\* what the caller of main() holds: nothing yet, or the value returned
Running == [kind |-> "running", rows |-> << >>]
ReturnedNone == [kind |-> "None", rows |-> << >>]

\* the emptiness test left out
NoItemsNever(found) == FALSE

\* line 641: "if not all_items"
NoItems(found) == found = << >>

(***************************************************************************)
(* The run of main().                                                      *)
(***************************************************************************)
Init ==
  /\ env \in Envs
  /\ mainPc = "import"
  /\ nFeeds \in 0..MaxFeeds
  /\ fi = 1
  /\ all_items = << >>
  /\ seen_urls = {}
  /\ lastPoll = "none"
  /\ warned = 0
  /\ polled = {}
  /\ report = NoReport
  /\ ret = Running
  /\ entries = << >> /\ ei = 1 /\ items = << >> /\ pollPc = "idle"
  /\ first_seen = {}
  /\ call = NoCall /\ returned = << >>

\* line 383: "import geoip2.database" stands outside any try block
ImportFails ==
  /\ mainPc = "import" /\ ~env.geoip2
  /\ mainPc' = "crashed"
  /\ UNCHANGED <<env, nFeeds, fi, all_items, seen_urls, lastPoll, warned, polled, report, ret>>
  /\ UNCHANGED pollVars
  /\ UNCHANGED <<first_seen, call, returned>>

\* lines 24-30 and 215-228: pycountry and spaCy are optional
Import ==
  /\ mainPc = "import" /\ env.geoip2
  /\ mainPc' = "main"
  /\ UNCHANGED <<env, nFeeds, fi, all_items, seen_urls, lastPoll, warned, polled, report, ret>>
  /\ UNCHANGED pollVars
  /\ UNCHANGED <<first_seen, call, returned>>

\* line 627: GeoIPResolver() opens the database; a missing file raises
GeoIPInitFails ==
  /\ mainPc = "main" /\ ~env.mmdb
  /\ mainPc' = "crashed"
  /\ UNCHANGED <<env, nFeeds, fi, all_items, seen_urls, lastPoll, warned, polled, report, ret>>
  /\ UNCHANGED pollVars
  /\ UNCHANGED <<first_seen, call, returned>>

\* lines 626-630
MainStart ==
  /\ mainPc = "main" /\ env.mmdb
  /\ mainPc' = "feeds"
  /\ fi' = 1 /\ all_items' = << >> /\ seen_urls' = {}
  /\ UNCHANGED <<env, nFeeds, lastPoll, warned, polled, report, ret>>
  /\ UNCHANGED pollVars
  /\ UNCHANGED <<first_seen, call, returned>>

\* a failing feed discards what was accumulated
AfterPollReset(acc, result) ==
  IF result.raised THEN [all_items |-> << >>, seen_urls |-> {}]
  ELSE Accumulate(acc, result.items)

\* main's state after one iteration of the loop over FEEDS, given how
\* poll_feed ended (lines 632-639)
AfterPoll(acc, result) ==
  IF result.raised THEN acc ELSE Accumulate(acc, result.items)
LoopPcAfter(result) == "feeds"

\* history of the loop: the records of `its` that are the first of their
\* url, among the records met so far and the earlier records of `its`
FirstPerUrl(its, met) ==
  {its[i] : i \in {j \in 1..Len(its) :
                     /\ \A r \in met : r.url # its[j].url
                     /\ \A k \in 1..(j - 1) : its[k].url # its[j].url}}

FeedStep(result) ==
  LET acc == AfterPoll([all_items |-> all_items, seen_urls |-> seen_urls], result)
  IN  /\ all_items' = acc.all_items
      /\ seen_urls' = acc.seen_urls
      /\ mainPc' = LoopPcAfter(result)
      /\ fi' = fi + 1
      /\ lastPoll' = IF result.raised THEN "raised" ELSE "returned"
      /\ warned' = IF result.raised THEN warned + 1 ELSE warned
      /\ polled' = IF result.raised THEN polled ELSE polled \cup Range(result.items)
      /\ first_seen' = IF result.raised THEN first_seen
                       ELSE first_seen \cup FirstPerUrl(result.items, first_seen)
      /\ UNCHANGED <<env, nFeeds, report, ret>>
      /\ UNCHANGED pollVars
      /\ UNCHANGED fnVars

\* feedparser.parse(url) itself raises (connection reset while reading)
FeedFetchRaises ==
  /\ mainPc = "feeds" /\ fi <= nFeeds
  /\ FeedStep([raised |-> TRUE])

\* feedparser.parse(url) yields entries and poll_feed runs over them
PollFeed ==
  /\ mainPc = "feeds" /\ fi <= nFeeds
  /\ \E es \in SeqsUpTo(MainPool, MaxEntries) :
       FeedStep(poll_feed(es, Since, SPACY_OK, PYCOUNTRY_OK))

\* feedparser.parse(url) is called without a timeout: a host that accepts
\* the connection and never answers blocks the call
FeedFetchHangs ==
  /\ mainPc = "feeds" /\ fi <= nFeeds
  /\ mainPc' = "blocked"
  /\ lastPoll' = "hung"
  /\ UNCHANGED <<env, nFeeds, fi, all_items, seen_urls, warned, polled, report, ret>>
  /\ UNCHANGED pollVars
  /\ UNCHANGED <<first_seen, call, returned>>

\* lines 641-643
NoArticles ==
  /\ mainPc = "feeds" /\ fi > nFeeds
  /\ NoItems(all_items)
  /\ mainPc' = "noarticles"
  /\ ret' = ReturnedNone
  /\ UNCHANGED <<env, nFeeds, fi, all_items, seen_urls, lastPoll, warned, polled, report>>
  /\ UNCHANGED pollVars
  /\ UNCHANGED <<first_seen, call, returned>>

\* lines 645-697
Report ==
  /\ mainPc = "feeds" /\ fi > nFeeds
  /\ ~NoItems(all_items)
  /\ report' = WideTable(all_items)
  /\ mainPc' = "written"
  /\ ret' = ReturnedNone
  /\ UNCHANGED <<env, nFeeds, fi, all_items, seen_urls, lastPoll, warned, polled>>
  /\ UNCHANGED pollVars
  /\ UNCHANGED <<first_seen, call, returned>>

Next ==
  \/ ImportFails
  \/ Import
  \/ GeoIPInitFails
  \/ MainStart
  \/ FeedFetchRaises
  \/ PollFeed
  \/ FeedFetchHangs
  \/ NoArticles
  \/ Report

Spec == Init /\ [][Next]_vars


(***************************************************************************)
(* One call of poll_feed, entry by entry.                                  *)
(***************************************************************************)
InitPoll ==
  /\ env \in {e \in Envs : e.geoip2 /\ e.mmdb}
  /\ mainPc = "feeds"
  /\ nFeeds = 1
  /\ fi = 1
  /\ all_items = << >>
  /\ seen_urls = {}
  /\ lastPoll = "none"
  /\ warned = 0
  /\ polled = {}
  /\ report = NoReport
  /\ ret = Running
  /\ entries \in SeqsUpTo(PollPool, MaxEntries)
  /\ ei = 1
  /\ items = << >>
  /\ pollPc = "loop"
  /\ first_seen = {}
  /\ call = NoCall /\ returned = << >>

CurrentOutcome == EntryOutcome(entries[ei], Since, SPACY_OK, PYCOUNTRY_OK)

\* lines 593-594: continue
SkipEntry ==
  /\ pollPc = "loop" /\ ei <= Len(entries)
  /\ CurrentOutcome.kind = "skip"
  /\ ei' = ei + 1
  /\ UNCHANGED <<entries, items, pollPc>>
  /\ UNCHANGED mainVars
  /\ UNCHANGED <<first_seen, call, returned>>

\* lines 595-621: the record of the entry is appended
AppendItem ==
  /\ pollPc = "loop" /\ ei <= Len(entries)
  /\ CurrentOutcome.kind = "item"
  /\ items' = Append(items, CurrentOutcome.item)
  /\ ei' = ei + 1
  /\ UNCHANGED <<entries, pollPc>>
  /\ UNCHANGED mainVars
  /\ UNCHANGED <<first_seen, call, returned>>

\* a step of the loop body raises: the exception leaves poll_feed and the
\* local list is lost
EntryRaises ==
  /\ pollPc = "loop" /\ ei <= Len(entries)
  /\ CurrentOutcome.kind = "raise"
  /\ pollPc' = "raised"
  /\ UNCHANGED <<entries, ei, items>>
  /\ UNCHANGED mainVars
  /\ UNCHANGED <<first_seen, call, returned>>

\* line 622
PollReturn ==
  /\ pollPc = "loop" /\ ei > Len(entries)
  /\ pollPc' = "returned"
  /\ UNCHANGED <<entries, ei, items>>
  /\ UNCHANGED mainVars
  /\ UNCHANGED <<first_seen, call, returned>>

NextPoll ==
  \/ SkipEntry
  \/ AppendItem
  \/ EntryRaises
  \/ PollReturn

SpecPoll == InitPoll /\ [][NextPoll]_vars

(***************************************************************************)
(* The aggregation step of main() on any list of records poll_feed can     *)
(* return.                                                                 *)
(***************************************************************************)
RecordEntries == {E1, E2, E3, E4, E8, E9, E10}

InitAgg ==
  /\ env \in {e \in Envs : e.geoip2 /\ e.mmdb}
  /\ mainPc = "feeds"
  /\ nFeeds = 0
  /\ fi = 1
  /\ all_items \in SeqsUpTo({ItemOf(e, env.spacy, env.pycountry) : e \in RecordEntries},
                            MaxRecords)
  /\ seen_urls = {all_items[i].url : i \in 1..Len(all_items)}
  /\ lastPoll = "returned"
  /\ warned = 0
  /\ polled = Range(all_items)
  /\ report = NoReport
  /\ ret = Running
  /\ entries = << >> /\ ei = 1 /\ items = << >> /\ pollPc = "idle"
  /\ first_seen = {}
  /\ call = NoCall /\ returned = << >>

NextAgg ==
  \/ NoArticles
  \/ Report

SpecAgg == InitAgg /\ [][NextAgg]_vars

(***************************************************************************)
(* A helper of the module called on its own, outside a run of main().      *)
(***************************************************************************)
FullEnv == [geoip2 |-> TRUE, mmdb |-> TRUE, spacy |-> TRUE, pycountry |-> TRUE]

\* main() is not running
PipelineIdle ==
  /\ mainPc = "helper"
  /\ nFeeds = 0
  /\ fi = 1
  /\ all_items = << >>
  /\ seen_urls = {}
  /\ lastPoll = "none"
  /\ warned = 0
  /\ polled = {}
  /\ report = NoReport
  /\ ret = Running
  /\ entries = << >> /\ ei = 1 /\ items = << >> /\ pollPc = "idle"
  /\ first_seen = {}

\* detect_actor(text) called up to MaxCalls times on one text
InitActor ==
  /\ PipelineIdle
  /\ env = FullEnv
  /\ call \in [text : SeqsUpTo(ActorWords, MaxWords)]
  /\ returned = << >>

CallDetectActor ==
  /\ mainPc = "helper" /\ Len(returned) < MaxCalls
  /\ returned' = Append(returned, detect_actor(call.text))
  /\ UNCHANGED <<mainVars, pollVars, first_seen, call>>

SpecActor == InitActor /\ [][CallDetectActor]_vars

\* detect_countries(text, url) called on its own: with or without the NER
\* model and pycountry, without a url or with one under a country TLD, and
\* with the NER model or the TLD lookup throwing inside their try blocks
InitCountries ==
  /\ PipelineIdle
  /\ env \in {e \in Envs : e.geoip2 /\ e.mmdb}
  /\ call \in [text : SeqsUpTo(CountryWords, MaxWords),
                url : {None, U2, U3},
                recognized : {{}, PlaceWords},
                fault : {"none", "ner", "tld"}]
  /\ returned = << >>

CallDetectCountries ==
  /\ mainPc = "helper" /\ returned = << >>
  /\ returned' = <<DetectCountriesOfText(call.text, call.url, call.recognized,
                                         call.fault, SPACY_OK, PYCOUNTRY_OK)>>
  /\ UNCHANGED <<mainVars, pollVars, first_seen, call>>

SpecCountries == InitCountries /\ [][CallDetectCountries]_vars

\* the characters of the strings the normalizer is exercised on: space, a
\* letter in both cases, its precomposed accented forms, the combining
\* accent on its own, another capital
NormChars == {" ", "E", "e", "Eacute", "eacute", "acute", "S"}

\* _normalize_text_for_match(s), and again on its own result
InitNorm ==
  /\ PipelineIdle
  /\ env = FullEnv
  /\ call \in [s : SeqsUpTo(NormChars, MaxLen)]
  /\ returned = << >>

CallNormalize ==
  /\ mainPc = "helper" /\ Len(returned) < 2
  /\ returned' = IF returned = << >>
                 THEN <<normalize_text_for_match(call.s)>>
                 ELSE Append(returned, normalize_text_for_match(returned[1]))
  /\ UNCHANGED <<mainVars, pollVars, first_seen, call>>

SpecNorm == InitNorm /\ [][CallNormalize]_vars

\* every taxonomy made of entries of MAPPINGS, in their order
SubSeqs(table) ==
  {SelectSeq(table, LAMBDA m : m \in keep) : keep \in SUBSET Range(table)}

\* entries a maintainer could add to the taxonomy
NewMappings ==
  {[pattern |-> {"report"}, desc |-> <<Malware>>],
   [pattern |-> {"phishing", "report"}, desc |-> <<Spearphishing, Phishing>>],
   [pattern |-> {"trojan"}, desc |-> << >>]}

\* MAPPINGS[pattern] = info for a pattern that is not yet a key: the new
\* item comes last in the dictionary
AddMapping(mappings, m) == Append(mappings, m)

\* classify(text) under a taxonomy, and under that taxonomy with one more
\* entry
InitClassify ==
  /\ PipelineIdle
  /\ env = FullEnv
  /\ call \in {c \in [text : SeqsUpTo(TtpWords, MaxWords),
                       mappings : SubSeqs(MAPPINGS),
                       added : NewMappings] :
                 \A i \in 1..Len(c.mappings) : c.mappings[i].pattern # c.added.pattern}
  /\ returned = << >>

CallClassify ==
  /\ mainPc = "helper" /\ returned = << >>
  /\ returned' = <<ClassifyWith(call.mappings, call.text),
                   ClassifyWith(AddMapping(call.mappings, call.added), call.text)>>
  /\ UNCHANGED <<mainVars, pollVars, first_seen, call>>

SpecClassify == InitClassify /\ [][CallClassify]_vars

(***************************************************************************)
(* Properties.                                                             *)
(***************************************************************************)
Ended == mainPc \in {"noarticles", "written"}

NormSet(l) == {normalize_text_for_match(l[i]) : i \in 1..Len(l)}
NoDupNorm(l) ==
  \A i, j \in 1..Len(l) :
    i # j => normalize_text_for_match(l[i]) # normalize_text_for_match(l[j])
PolledKeys == {<<r.url, r.title>> : r \in polled}
RowsWithKey(u, t) ==
  {i \in 1..Len(report.merged) :
     report.merged[i].url = u /\ report.merged[i].title = t}

\* C1: when the records polled in a run hold the same article twice (same
\* url and title, different techniques or countries), the report has
\* exactly one row for it, whose techniques and countries are the union of
\* the values of all those records, without a duplicate canonical entry.
C1_DuplicateArticleMerged ==
  mainPc = "written" =>
    \A r1, r2 \in polled :
      (r1 # r2 /\ r1.url = r2.url /\ r1.title = r2.title) =>
        LET grp == {r \in polled : r.url = r1.url /\ r.title = r1.title}
            rows == RowsWithKey(r1.url, r1.title)
        IN  /\ Cardinality(rows) = 1
            /\ \A i \in rows :
                 /\ NormSet(report.merged[i].ttp_desc)
                      = UNION {NormSet(r.ttp_desc) : r \in grp}
                 /\ NormSet(report.merged[i].affected_countries)
                      = UNION {NormSet(r.affected_countries) : r \in grp}
                 /\ NoDupNorm(report.merged[i].ttp_desc)
                 /\ NoDupNorm(report.merged[i].affected_countries)

\* C2: the report has exactly one row per distinct (url, title) pair among
\* the records poll_feed returned: same url with another title is another
\* row, and no record (also one without a link) is dropped.
C2_OneRowPerPolledKey ==
  mainPc = "written" =>
    /\ {<<report.merged[i].url, report.merged[i].title>> :
          i \in 1..Len(report.merged)} = PolledKeys
    /\ Len(report.merged) = Cardinality(PolledKeys)

\* the list L keeps the first occurrence, by normalized value, of every
\* value of the concatenation C, in the order of those first occurrences
FirstPos(C, k) ==
  CHOOSE p \in 1..Len(C) :
    /\ normalize_text_for_match(C[p]) = k
    /\ \A q \in 1..(p - 1) : normalize_text_for_match(C[q]) # k
FirstSeenOrder(L, C) ==
  /\ NormSet(L) = NormSet(C)
  /\ \A i \in 1..Len(L) : L[i] = C[FirstPos(C, normalize_text_for_match(L[i]))]
  /\ \A i, j \in 1..Len(L) :
       i < j => FirstPos(C, normalize_text_for_match(L[i]))
                  < FirstPos(C, normalize_text_for_match(L[j]))

RecordsOfRow(row) ==
  SelectSeq(all_items, LAMBDA r : r.url = row.url /\ r.title = row.title)

\* C3: a merged row keeps published_at and source of the first record of
\* its (url, title) group, and its techniques and countries hold every value
\* of the group's lists, concatenated in arrival order, at the place of its
\* first occurrence (equality by the normalizer).
C3_FirstSeenKept ==
  mainPc = "written" =>
    \A i \in 1..Len(report.merged) :
      LET row == report.merged[i]
          grp == RecordsOfRow(row)
      IN  /\ grp # << >>
          /\ row.published_utc = grp[1].published_utc
          /\ row.source = grp[1].source
          /\ FirstSeenOrder(row.ttp_desc,
                            Flatten([j \in 1..Len(grp) |-> grp[j].ttp_desc]))
          /\ FirstSeenOrder(row.affected_countries,
                            Flatten([j \in 1..Len(grp) |-> grp[j].affected_countries]))

\* a group of two records with different dates, whose second record brings a
\* new country and one that only differs in case and accent
C3_Witness ==
  /\ mainPc = "written"
  /\ \E i \in 1..Len(report.merged) :
       LET row == report.merged[i]
           grp == RecordsOfRow(row)
           all == Flatten([j \in 1..Len(grp) |-> grp[j].affected_countries])
       IN  /\ Len(grp) >= 2
           /\ grp[1].published_utc # grp[2].published_utc
           /\ Len(row.affected_countries) > Len(grp[1].affected_countries)
           /\ Len(row.affected_countries) < Len(all)

\* C4: a feed whose poll raises is logged and skipped: the accumulated
\* records and the seen urls are as before it, the loop goes on with the
\* next feed, and every record of the feeds that returned is represented in
\* the accumulated result by the record of its url.
C4_FailedFeedSkipped ==
  /\ [](mainPc \in {"feeds", "noarticles", "written"} =>
          /\ \A r \in polled : r.url \in seen_urls
          /\ seen_urls = {all_items[i].url : i \in 1..Len(all_items)}
          /\ Range(all_items) \subseteq polled
          /\ fi <= nFeeds + 1)
  /\ [][(lastPoll' = "raised" /\ fi' = fi + 1) =>
          /\ all_items' = all_items
          /\ seen_urls' = seen_urls
          /\ polled' = polled
          /\ warned' = warned + 1
          /\ mainPc' = "feeds"]_vars

\* the first feed failed, the one after it was polled and its records kept
C4_Witness ==
  /\ mainPc = "feeds"
  /\ warned = 1 /\ fi = 3 /\ lastPoll = "returned"
  /\ all_items # << >>

\* C5: a failure while one entry is processed never reaches the caller of
\* poll_feed, and the other entries of the feed are still returned.
C5_ItemFailureIsolated ==
  /\ pollPc # "raised"
  /\ pollPc = "returned" =>
       \A i \in 1..Len(entries) :
         (~Skipped(entries[i], Since) /\ ~Raises(entries[i])) =>
           \E j \in 1..Len(items) :
             items[j].url = entries[i].link /\ items[j].title = entries[i].title

\* C6: no run is aborted because the NER model, the GeoIP library or
\* database, or the country library is missing.
C6_NoFatalCapability == mainPc # "crashed"

\* the claim's reading of the entry's timestamp: published or, when the
\* entry has none, updated; it parses and is not older than since
C7Retained(e) ==
  LET d == IF e.published.kind # "absent" THEN e.published ELSE e.updated
  IN  d.kind = "date" /\ d.day >= Since

\* C7: the records of poll_feed are, in order and once each, the entries
\* whose timestamp parses and is not older than since; skipping raises
\* nothing.
C7_RetainedIffFresh ==
  pollPc \in {"loop", "returned"} =>
    LET kept == SelectSeq(SubSeq(entries, 1, ei - 1), C7Retained)
    IN  /\ Len(items) = Len(kept)
        /\ \A j \in 1..Len(kept) :
             /\ items[j].url = kept[j].link
             /\ items[j].title = kept[j].title
             /\ items[j].published_utc = EntryDate(kept[j]).day

\* an entry dated exactly since is returned, one with an unparseable
\* published date is skipped although its updated date is fresh
C7_Witness ==
  /\ pollPc = "returned"
  /\ Len(entries) = 2 /\ Len(items) = 1
  /\ items[1].published_utc = Since
  /\ \E i \in 1..Len(entries) :
       entries[i].published = Garbage /\ entries[i].updated.kind = "date"

\* C8 as claimed: with no entry inside the window the entry point returns
\* an empty table (zero rows).
C8_EmptyWindowReturnsEmptyTable ==
  (Ended /\ polled = {}) => (ret.kind = "table" /\ ret.rows = << >>)

\* C8 as amended: with no entry inside the window main() reports "No
\* articles found", writes no report and returns None; once the loop over
\* the feeds has ended, that is the only step it takes.
C8_EmptyWindowReturnsNone ==
  /\ []((Ended /\ polled = {}) =>
          (mainPc = "noarticles" /\ ret = ReturnedNone /\ report = NoReport))
  /\ [][(mainPc = "feeds" /\ fi > nFeeds /\ polled = {}) =>
          mainPc' = "noarticles"]_vars

\* a feed was polled, returned nothing, and the run ended
C8_Witness ==
  /\ mainPc = "noarticles"
  /\ lastPoll = "returned" /\ fi > 1
  /\ polled = {}

\* C9: every network request of a run is bounded by the timeout, so no run
\* is ever left waiting on a host that never answers; a run that has not
\* ended can always go on.
C9_NoRequestBlocksForever == mainPc # "blocked" /\ lastPoll # "hung"

RECURSIVE DropTrailingEmpty(_)
DropTrailingEmpty(cells) ==
  IF cells = << >> THEN << >>
  ELSE IF cells[Len(cells)] = EmptyStr
       THEN DropTrailingEmpty(SubSeq(cells, 1, Len(cells) - 1))
       ELSE cells

Longest(lists) == Max({Len(lists[i]) : i \in 1..Len(lists)})
RoundTrip(cells, list, n) ==
  /\ Len(cells) = n
  /\ DropTrailingEmpty(cells) = list
  /\ \A k \in 1..Len(cells) : k > Len(list) => cells[k] = EmptyStr
PivotRoundTrip ==
  /\ Len(report.rows) = Len(report.merged)
  /\ \A i \in 1..Len(report.rows) :
       /\ RoundTrip(report.rows[i].country, report.merged[i].affected_countries,
                    report.N)
       /\ RoundTrip(report.rows[i].ttp_desc, report.merged[i].ttp_desc, report.M)

\* C10 as claimed: N and M are the lengths of the longest countries and
\* techniques lists, and the cells of a row without the trailing empty ones
\* are its merged list.
C10_WidthIsLongestList ==
  mainPc = "written" =>
    /\ report.N = Longest([i \in 1..Len(report.merged) |->
                             report.merged[i].affected_countries])
    /\ report.M = Longest([i \in 1..Len(report.merged) |-> report.merged[i].ttp_desc])
    /\ PivotRoundTrip

\* C10 as amended: N and M are those lengths, but never less than one
\* column; the cells of a row without the trailing empty ones are its merged
\* list, and the padding is the empty string.
C10_PivotRoundTrip ==
  mainPc = "written" =>
    /\ report.N = Max({1, Longest([i \in 1..Len(report.merged) |->
                                     report.merged[i].affected_countries])})
    /\ report.M = Max({1, Longest([i \in 1..Len(report.merged) |->
                                     report.merged[i].ttp_desc])})
    /\ PivotRoundTrip

\* two rows with country lists of different lengths: the shorter is padded
C10_Witness ==
  /\ mainPc = "written"
  /\ report.N >= 2
  /\ \E i, j \in 1..Len(report.merged) :
       /\ Len(report.merged[i].affected_countries) = report.N
       /\ Len(report.merged[j].affected_countries) < report.N
       /\ Len(report.merged[j].affected_countries) >= 1

\* the row has a ttp_desc cell in which "Phishing" or "Spearphishing" occurs
HasPhishingCell(row) ==
  \E k \in 1..Len(row.ttp_desc) :
    \E s \in {Phishing, Spearphishing} :
      \E p \in 1..Len(row.ttp_desc[k]) :
        /\ p + Len(s) - 1 <= Len(row.ttp_desc[k])
        /\ \A q \in 1..Len(s) : row.ttp_desc[k][p + q - 1] = s[q]
Occurrences(sheet, row) == Cardinality({i \in 1..Len(sheet) : sheet[i] = row})

\* C11: the two sheets partition the rows of the wide table: every row is
\* on exactly one sheet, once, it is on Human_Attacks exactly when one of
\* its ttp_desc cells contains "Phishing" or "Spearphishing" (case as
\* written), and the sheets hold nothing else.
C11_SplitIsPartition ==
  mainPc = "written" =>
    /\ \A i \in 1..Len(report.rows) :
         LET row == report.rows[i]
             h == Occurrences(report.Human_Attacks, row)
             g == Occurrences(report.General_Attacks, row)
         IN  /\ h + g = 1
             /\ (h = 1) <=> HasPhishingCell(row)
    /\ Len(report.Human_Attacks) + Len(report.General_Attacks) = Len(report.rows)

\* both sheets have rows, and one row is human-targeted by "Spearphishing"
\* alone
C11_Witness ==
  /\ mainPc = "written"
  /\ report.General_Attacks # << >>
  /\ \E i \in 1..Len(report.Human_Attacks) :
       \A k \in 1..Len(report.Human_Attacks[i].ttp_desc) :
         report.Human_Attacks[i].ttp_desc[k] \in {Spearphishing, EmptyStr}

\* C12: a written table has at least the columns country_1 and ttp_desc_1;
\* when no row has a country (a technique), country_1 (ttp_desc_1) is the
\* only such column and holds the empty string in every row.
C12_AtLeastOneColumn ==
  mainPc = "written" =>
    /\ \A sh \in SheetNames :
         {<<"country_", 1>>, <<"ttp_desc_", 1>>} \subseteq report.sheet_columns[sh]
    /\ report.N >= 1 /\ report.M >= 1
    /\ \A i \in 1..Len(report.rows) :
         /\ Len(report.rows[i].country) = report.N
         /\ Len(report.rows[i].ttp_desc) = report.M
    /\ (\A i \in 1..Len(report.merged) : report.merged[i].affected_countries = << >>)
         => /\ report.N = 1
            /\ \A i \in 1..Len(report.rows) : report.rows[i].country = <<EmptyStr>>
    /\ (\A i \in 1..Len(report.merged) : report.merged[i].ttp_desc = << >>)
         => /\ report.M = 1
            /\ \A i \in 1..Len(report.rows) : report.rows[i].ttp_desc = <<EmptyStr>>

\* a table with rows of which none has a country
C12_Witness ==
  /\ mainPc = "written"
  /\ report.rows # << >>
  /\ \A i \in 1..Len(report.merged) : report.merged[i].affected_countries = << >>
  /\ \E i \in 1..Len(report.merged) : report.merged[i].ttp_desc # << >>

FixedColumnsAsClaimed ==
  {Col("published_at"), Col("source"), Col("title"), Col("url"), Col("threat_actor")}
FixedColumnsAsWritten ==
  {Col("published_utc"), Col("source"), Col("title"), Col("url"), Col("threat_actor")}

\* C13 as claimed: every sheet written has exactly the columns published_at,
\* source, title, url, threat_actor, country_1..country_N and
\* ttp_desc_1..ttp_desc_M.
C13_ColumnsAsClaimed ==
  mainPc = "written" =>
    \A sh \in SheetNames :
      report.sheet_columns[sh] =
        FixedColumnsAsClaimed \cup Numbered("country_", report.N)
                              \cup Numbered("ttp_desc_", report.M)

\* C13 as amended: every sheet written has exactly the columns
\* published_utc, source, title, url, threat_actor, country_1..country_N and
\* ttp_desc_1..ttp_desc_M.
C13_ColumnsAsWritten ==
  mainPc = "written" =>
    \A sh \in SheetNames :
      report.sheet_columns[sh] =
        FixedColumnsAsWritten \cup Numbered("country_", report.N)
                              \cup Numbered("ttp_desc_", report.M)

\* a report with rows on both sheets and more than one column of each kind
C13_Witness ==
  /\ mainPc = "written"
  /\ report.Human_Attacks # << >> /\ report.General_Attacks # << >>
  /\ report.N >= 2 /\ report.M >= 2

\* the actors of the table of which some pattern occurs in the text as a
\* word, letter case apart
ActorsMatching(text) ==
  {i \in 1..Len(ACTOR_PATTERNS) :
     \E j \in 1..Len(ACTOR_PATTERNS[i].patterns) :
       \E k \in 1..Len(text) :
         LowerWord(ACTOR_PATTERNS[i].patterns[j]) = LowerWord(text[k])}

\* C14: every call of detect_actor on a text returns the label of the
\* matching actor declared earliest in the table, wherever in the text the
\* matches stand, and the empty string when no actor matches; repeated calls
\* return the same label.
C14_FirstDeclaredActor ==
  \A c \in 1..Len(returned) :
    LET m == ActorsMatching(call.text)
    IN  /\ m = {} => returned[c] = ""
        /\ Cardinality(m) >= 2 =>
             \E i \in m : /\ \A j \in m : i <= j
                          /\ returned[c] = ACTOR_PATTERNS[i].actor
        /\ returned[c] = returned[1]

\* C15: whatever the text and the taxonomy, every description classify
\* returns under the taxonomy is also returned under the taxonomy with one
\* new (pattern, descriptions) entry added.
C15_ClassifyMonotone ==
  returned # << >> =>
    \A i \in 1..Len(returned[1]) :
      \E j \in 1..Len(returned[2]) : returned[2][j] = returned[1][i]

\* the text fired a pattern before, the added entry fires too and brings a
\* description that was not there
C15_Witness ==
  /\ returned # << >>
  /\ returned[1] # << >>
  /\ Len(returned[2]) > Len(returned[1])

\* C16: normalizing a normalized string changes nothing:
\* normalize(normalize(s)) = normalize(s) for every string s.
C16_NormalizeIdempotent ==
  Len(returned) = 2 => returned[2] = returned[1]

\* a string with an accented capital between spaces was normalized twice,
\* and the first pass changed it
C16_Witness ==
  /\ Len(returned) = 2
  /\ \E i \in 1..Len(call.s) : call.s[i] = "Eacute"
  /\ call.s[1] = " "
  /\ returned[1] # call.s /\ returned[1] # << >>

\* "Recent attacks hit Sweden and the USA.", by its words that matter
ExampleText == <<"attacks", "Sweden", "USA">>

\* the names each detection source yields for the call, by priority:
\* 1 NER, 2 canonical-name table, 3 native aliases, 4 common aliases, 5 TLD
SourceNames(k) ==
  LET words == Range(call.text)
      keyed(c, keys) == \E w \in words : LowerWord(w) \in keys
  IN  CASE k = 1 -> IF SPACY_OK /\ call.fault # "ner"
                    THEN {map_to_country(w, PYCOUNTRY_OK) :
                            w \in words \cap call.recognized} \ {EmptyStr}
                    ELSE {}
        [] k = 2 -> IF PYCOUNTRY_OK
                    THEN {PycName(c) : c \in {d \in CountryIds : keyed(d, NameKeys(d))}}
                    ELSE {}
        [] k = 3 -> {AliasName(c) : c \in {d \in CountryIds : keyed(d, NativeKeys(d))}}
        [] k = 4 -> {AliasName(c) : c \in {d \in CountryIds : keyed(d, AliasKeys(d))}}
        [] k = 5 -> IF call.fault = "tld" \/ ~PYCOUNTRY_OK THEN {}
                    ELSE IF call.url = U2 THEN {Sweden}
                    ELSE IF call.url = U3 THEN {RussianFederation}
                    ELSE {}
SourceRank(n) == CHOOSE k \in 1..5 : n \in SourceNames(k) /\ \A j \in 1..(k - 1) : n \notin SourceNames(j)

\* C17: without NER (and with the country library) the example sentence and
\* no url give exactly Sweden, United States; in general the result holds
\* each detected name once, ordered by the priority of the source that
\* detected it first, not by its place in the text.
C17_SourcePriorityOrder ==
  returned # << >> =>
    LET r == returned[1]
    IN  /\ (~SPACY_OK /\ PYCOUNTRY_OK /\ call.url = None /\ call.text = ExampleText)
             => r = <<Sweden, UnitedStates>>
        /\ call.text # << >> => Range(r) = UNION {SourceNames(k) : k \in 1..5}
        /\ \A i, j \in 1..Len(r) : i < j =>
             /\ r[i] # r[j]
             /\ SourceRank(r[i]) <= SourceRank(r[j])

\* the United States are mentioned before Sweden, by an alias and by a
\* native name, and the result lists Sweden first
C17_Witness ==
  /\ returned = <<(<<Sweden, UnitedStates>>)>>
  /\ ~SPACY_OK
  /\ call.text = <<"USA", "Sverige">>

\* the country a name denotes
CountryOfName(n) ==
  CHOOSE c \in CountryIds : n = PycName(c) \/ n = AliasName(c)

\* C20: detect_countries never returns two names of the same country.
C20_OneNamePerCountry ==
  returned # << >> =>
    \A i, j \in 1..Len(returned[1]) :
      i # j => CountryOfName(returned[1][i]) # CountryOfName(returned[1][j])

\* no empty string and no two entries equal after normalization
CleanList(l) ==
  /\ \A i \in 1..Len(l) : l[i] # EmptyStr
  /\ NoDupNorm(l)

\* C18: the countries and the techniques of every record poll_feed builds,
\* and of every aggregated row, hold no empty string and no two entries that
\* are equal after normalization.
C18_ListsCanonical ==
  /\ \A i \in 1..Len(items) :
       CleanList(items[i].affected_countries) /\ CleanList(items[i].ttp_desc)
  /\ mainPc = "written" =>
       \A i \in 1..Len(report.merged) :
         /\ CleanList(report.merged[i].affected_countries)
         /\ CleanList(report.merged[i].ttp_desc)

\* C19: throughout the loop over FEEDS the seen urls are the urls of the
\* accumulated records, no two accumulated records share a url, the record
\* kept for a url is the first one met in feed order then entry order, and
\* an iteration whose feed fails changes neither the records nor the urls.
C19_SeenUrlInvariant ==
  /\ [](/\ seen_urls = {all_items[i].url : i \in 1..Len(all_items)}
        /\ \A i, j \in 1..Len(all_items) :
             i # j => all_items[i].url # all_items[j].url
        /\ Range(all_items) = first_seen)
  /\ [][(fi' = fi + 1 /\ lastPoll' = "raised") =>
          (all_items' = all_items /\ seen_urls' = seen_urls)]_vars

\* both feeds were polled and a record of the second one was dropped because
\* a record of the first one has its url
C19_Witness ==
  /\ mainPc = "feeds" /\ fi = 3 /\ warned = 0
  /\ \E r \in polled \ Range(all_items) :
       \E i \in 1..Len(all_items) :
         all_items[i].url = r.url /\ all_items[i] # r

\* the words a text can hold: those of the model's texts and every pattern
\* word as the table spells it
ActorVocabulary ==
  ActorWords \cup
    UNION {Range(ACTOR_PATTERNS[i].patterns) : i \in 1..Len(ACTOR_PATTERNS)}

\* C21: every pattern of every actor fires on some text, and every call of
\* detect_actor on a text that holds a pattern's keyword, in whatever letter
\* case, returns the label of the earliest actor with such a keyword, never
\* the empty string.
C21_CaseInsensitiveAndLive ==
  /\ \A i \in 1..Len(ACTOR_PATTERNS) :
       \A j \in 1..Len(ACTOR_PATTERNS[i].patterns) :
         \E w \in ActorVocabulary :
           Fires(ACTOR_PATTERNS[i].patterns[j], LowerText(<<w>>))
  /\ \A c \in 1..Len(returned) :
       LET m == ActorsMatching(call.text)
       IN  m # {} =>
             /\ returned[c] # ""
             /\ \A i \in m : (\A j \in m : i <= j) =>
                  returned[c] = ACTOR_PATTERNS[i].actor

====
